---- MODULE Spec2Model ----
(***************************************************************************)
(* Model of connstate/epoll_wait_cgo.c: the poll loop cgo_epoll_wait_loop, *)
(* run by one dedicated thread, together with the collaborators it shares  *)
(* memory with: the owning connection's close path and the reaper's        *)
(* reclamation handshake.  Every atomic access of the C code (seq_cst      *)
(* atomic_load / atomic_compare_exchange_strong / atomic_store) is one     *)
(* step of the loop thread; the steps of the other threads interleave      *)
(* freely with them.                                                       *)
(***************************************************************************)
EXTENDS Integers, FiniteSets, Sequences, TLC

\* ---------------------------------------------------------------- bounds
NumCells == 2      \* connections: cell c is referenced by slot c
MaxBatch == 2      \* largest n epoll_wait returns in the model (MAX_EVENTS in the code)
MaxEintr == 5      \* interruptions before real events, scenario of LiveSpec

\* ------------------------------------------------------ program constants
STATE_OK            == 0
STATE_REMOTE_CLOSED == 1
STATE_CLOSED        == 2
EINTR               == 4
EBADF               == 9

States == {STATE_OK, STATE_REMOTE_CLOSED, STATE_CLOSED}
Cells  == 1..NumCells
NULL   == 0
\* errno values of a failed epoll_wait
Errnos == {EINTR, EBADF}
\* ev->events: the bits of one delivered event, as the set of the bits set
FlagChoices == {{"EPOLLIN"}, {"EPOLLHUP"}, {"EPOLLIN", "EPOLLRDHUP"}, {"EPOLLOUT", "EPOLLERR"}}
\* the bits of ev->events the callers register for or the kernel reports unasked
EpollBits == {"EPOLLIN", "EPOLLOUT", "EPOLLERR", "EPOLLHUP", "EPOLLRDHUP"}

VARIABLES
    \* the loop thread: program counter and locals of cgo_epoll_wait_loop
    pc,        \* "wait" | "load" | "cas" | "ack" | "returned"
    n,         \* result of the last epoll_wait
    i,         \* index of the for loop
    conn_ptr,  \* the pointer loaded from the slot (NULL outside the for body)
    errno,     \* the thread's errno
    ret,       \* value returned by cgo_epoll_wait_loop, once pc = "returned"
    \* shared memory
    slot,      \* slot[c]: the indirection slot of connection c: c or NULL
    fd,        \* fd[c]: conn_stater_t.fd of cell c, the owner's handle
    state,     \* state[c]: conn_stater_t.state of cell c
    freed,     \* freed[c]: the cell's memory has been released
    freeack,   \* *freeack_ptr
    \* the reaper
    rpc,       \* "idle" | "nulled" | "reset" | "seen"
    rcell,     \* the cell being reclaimed (NULL when idle)
    \* history variables (read by no action of the program)
    last,      \* the kind of the step taken last
    uaf,       \* the loop has dereferenced a freed cell
    hit,       \* cells whose pointer this batch loaded for a hang-up/error event
    quiet,     \* the pending reset of freeack was made while the loop was in the wait
    fresh,     \* a batch has been delivered since the pending reset of freeack
    eintrs,    \* interruptions counted (LiveSpec only)
    \* the run of one given batch (BatchSpec only; constant elsewhere)
    events,    \* the array epoll_wait filled: events[k] has data.ptr and events
    pre        \* state, as it was when the batch was delivered

loopVars   == <<pc, n, i, conn_ptr, errno, ret>>
memVars    == <<slot, state, freed, freeack>>
reaperVars == <<rpc, rcell>>
batchVars  == <<events, pre>>
vars == <<pc, n, i, conn_ptr, errno, ret, slot, state, freed, freeack,
          rpc, rcell, last, uaf, hit, quiet, fresh, eintrs, events, pre, fd>>

\* ------------------------------------------------------ the loop's logic

\* ev->events & (EPOLLHUP | EPOLLRDHUP | EPOLLERR)
IsHupMask == {"EPOLLHUP", "EPOLLRDHUP", "EPOLLERR"}
\* the mask written without EPOLLRDHUP
IsHupNoRdhup(bits) == (bits \cap {"EPOLLHUP", "EPOLLERR"}) # {}
IsHup(bits) == (bits \cap IsHupMask) # {}

\* a compare-and-swap written with its arguments exchanged
CasSwapped(cur) == IF cur = STATE_REMOTE_CLOSED THEN STATE_OK ELSE cur
\* a plain store in place of the compare-and-swap
CasAsStore(cur) == STATE_REMOTE_CLOSED
\* atomic_compare_exchange_strong(&conn->state, &(uint64_t){STATE_OK}, STATE_REMOTE_CLOSED):
\* the value the cell holds afterwards, given the value it held
CasState(cur) == IF cur = STATE_OK THEN STATE_REMOTE_CLOSED ELSE cur

\* a for loop that stops one event short
ForTestShort(ii, nn) == IF ii < nn - 1 THEN "load" ELSE "ack"
\* for (...; i < n; ...): into the body, or out to the acknowledgement store
ForTest(ii, nn) == IF ii < nn THEN "load" ELSE "ack"

\* EINTR handled like every other error
AfterWaitNoRetry(nn, e) == IF nn < 0 THEN "returned" ELSE ForTest(0, nn)
\* the `continue` missing: an interrupted wait falls through to the for loop
AfterWaitFallThrough(nn, e) ==
    IF nn < 0
      THEN IF e = EINTR THEN ForTest(0, nn) ELSE "returned"
      ELSE ForTest(0, nn)
\* an empty batch taken for nothing to acknowledge
AfterWaitSkipEmpty(nn, e) ==
    IF nn < 0
      THEN IF e = EINTR THEN "wait" ELSE "returned"
      ELSE IF nn = 0 THEN "wait" ELSE ForTest(0, nn)
\* a failed wait leaves the iteration through its acknowledgement store
AfterWaitFatalAck(nn, e) ==
    IF nn < 0
      THEN IF e = EINTR THEN "wait" ELSE "ack"
      ELSE ForTest(0, nn)
\* where control goes once epoll_wait has returned nn with errno e
AfterWait(nn, e) ==
    IF nn < 0
      THEN IF e = EINTR THEN "wait" ELSE "returned"
      ELSE ForTest(0, nn)

\* the cell read and flipped
AckValueToggled == IF freeack = 1 THEN 0 ELSE 1
\* atomic_store(freeack_ptr, 1): the value stored
AckValue == 1

\* the slot read once at registration and never again
SlotValueCached(s) == s
\* atomic_load(conn_ptr_field): the pointer the slot holds now
SlotValue(s) == slot[s]

\* the null check missing
AfterLoadNoNullCheck(p, bits, ii, nn) ==
    IF IsHup(bits) THEN "cas" ELSE ForTest(ii + 1, nn)
\* the for body after the load: skip a null slot, CAS on a hang-up/error event
AfterLoad(p, bits, ii, nn) ==
    IF p = NULL THEN ForTest(ii + 1, nn)
    ELSE IF IsHup(bits) THEN "cas"
    ELSE ForTest(ii + 1, nn)

\* ------------------------------------------------------------------ Init
\* The loop is about to call epoll_wait for the first time.  Every slot points to
\* its cell; a cell may be in any state (a connection closed by its owner, or marked
\* by an earlier run of the loop); *freeack_ptr holds any value (2: neither 0 nor 1).
Init ==
    /\ pc = "wait" /\ n = 0 /\ i = 0 /\ conn_ptr = NULL
    /\ errno = 0 /\ ret = 0
    /\ slot = [c \in Cells |-> c]
    /\ fd = [c \in Cells |-> c]
    /\ state \in [Cells -> States]
    /\ freed = [c \in Cells |-> FALSE]
    /\ freeack \in {0, 1, 2}
    /\ rpc = "idle" /\ rcell = NULL
    /\ last = "init" /\ uaf = FALSE /\ hit = {} /\ quiet = FALSE /\ fresh = FALSE
    /\ eintrs = 0
    /\ events = <<>> /\ pre = <<>>

\* ------------------------------------------------------------- the loop

\* n = epoll_wait(epfd, events, MAX_EVENTS, -1); if (n < 0) { if (errno == EINTR)
\* continue; return errno; }  followed by the first test of the for loop.
\* r is the result of the call and e the errno of a failed call.
EpollWaitStep(r, e) ==
    /\ pc = "wait"
    /\ n' = r
    /\ errno' = IF r < 0 THEN e ELSE errno
    /\ pc' = AfterWait(r, errno')
    /\ ret' = IF pc' = "returned" THEN errno' ELSE ret
    /\ i' = 0
    /\ hit' = {}
    /\ fresh' = (fresh \/ (r >= 0 /\ rpc = "reset"))
    /\ last' = IF r >= 0 THEN "batch" ELSE IF e = EINTR THEN "eintr" ELSE "fatal"
    /\ UNCHANGED <<conn_ptr, memVars, reaperVars, uaf, quiet>>

EpollWait ==
    /\ \E r \in {-1} \cup (0..MaxBatch), e \in Errnos : EpollWaitStep(r, e)
    /\ UNCHANGED <<eintrs, batchVars, fd>>

\* ev = &events[i]; conn_ptr = atomic_load(ev->data.ptr); if (conn_ptr == NULL)
\* continue; then the test of ev->events.  The event the kernel wrote at events[i]
\* is any event (slot s, bits fl): it is read here, once, and nowhere else, so it is
\* drawn where it is read.
\* conn_ptr declared outside the for body: it keeps whatever the last load returned
LoadEventHoisted(s, fl) ==
    /\ pc = "load"
    /\ LET p == SlotValue(s)
           to == AfterLoad(p, fl, i, n)
       IN /\ pc' = to
          /\ conn_ptr' = p
          /\ i' = IF to = "cas" THEN i ELSE i + 1
          /\ hit' = IF to = "cas" /\ p # NULL THEN hit \cup {p} ELSE hit
          /\ last' = IF slot[s] = NULL THEN "load_null"
                     ELSE IF IsHup(fl) THEN "hup" ELSE "skip"
    /\ UNCHANGED <<n, errno, ret, memVars, reaperVars, uaf, quiet, fresh, eintrs,
                   batchVars, fd>>
\* one event (slot s, bits fl) through the for body, up to the compare-and-swap
LoadEvent(s, fl) ==
    /\ pc = "load"
    /\ LET p == SlotValue(s)
           to == AfterLoad(p, fl, i, n)
       IN /\ pc' = to
          /\ conn_ptr' = IF to = "cas" THEN p ELSE NULL
          /\ i' = IF to = "cas" THEN i ELSE i + 1
          /\ hit' = IF to = "cas" /\ p # NULL THEN hit \cup {p} ELSE hit
          /\ last' = IF slot[s] = NULL THEN "load_null"
                     ELSE IF IsHup(fl) THEN "hup" ELSE "skip"
    /\ UNCHANGED <<n, errno, ret, memVars, reaperVars, uaf, quiet, fresh, eintrs,
                   batchVars, fd>>

LoadSlot == \E s \in Cells, fl \in FlagChoices : LoadEvent(s, fl)

\* the slot cleared by the loop once it has handled the cell
CasAndClearSlot ==
    /\ pc = "cas"
    /\ conn_ptr # NULL
    /\ state' = [state EXCEPT ![conn_ptr] = CasState(state[conn_ptr])]
    /\ slot' = [c \in Cells |-> IF slot[c] = conn_ptr THEN NULL ELSE slot[c]]
    /\ last' = IF state'[conn_ptr] # state[conn_ptr] THEN "cas_ok" ELSE "cas_noop"
    /\ pc' = ForTest(i + 1, n)
    /\ i' = i + 1
    /\ conn_ptr' = NULL
    /\ UNCHANGED <<n, errno, ret, freed, freeack, reaperVars,
                   uaf, hit, quiet, fresh, eintrs, batchVars, fd>>

\* atomic_compare_exchange_strong(&conn->state, ...), then i++ and the for test.
\* On a cell whose memory was released the access is undefined: the memory may
\* hold anything and be left holding anything.  Through a null pointer the access
\* faults: the thread takes no further step.
Cas ==
    /\ pc = "cas"
    /\ conn_ptr # NULL
    /\ IF freed[conn_ptr]
         THEN /\ uaf' = TRUE
              /\ \E v \in States : state' = [state EXCEPT ![conn_ptr] = v]
         ELSE /\ uaf' = uaf
              /\ state' = [state EXCEPT ![conn_ptr] = CasState(state[conn_ptr])]
    /\ last' = IF state'[conn_ptr] # state[conn_ptr] THEN "cas_ok" ELSE "cas_noop"
    /\ pc' = ForTest(i + 1, n)
    /\ i' = i + 1
    /\ conn_ptr' = NULL
    /\ UNCHANGED <<n, errno, ret, slot, freed, freeack, reaperVars,
                   hit, quiet, fresh, eintrs, batchVars, fd>>

\* atomic_store(freeack_ptr, 1), and back to the top of while (1); i, declared in
\* the for statement, is out of scope
StoreAck ==
    /\ pc = "ack"
    /\ freeack' = AckValue
    /\ pc' = "wait"
    /\ i' = 0
    /\ hit' = {}
    /\ last' = "ack"
    /\ UNCHANGED <<n, conn_ptr, errno, ret, slot, state, freed, reaperVars,
                   uaf, quiet, fresh, eintrs, batchVars, fd>>

\* ------------------------------------------------- the other threads

\* the owning connection's close path: store CLOSED into its own cell
ConnClose(c) ==
    /\ ~freed[c]
    /\ state[c] # STATE_CLOSED
    /\ state' = [state EXCEPT ![c] = STATE_CLOSED]
    /\ last' = "env"
    /\ UNCHANGED <<loopVars, slot, freed, freeack, reaperVars, uaf, hit, quiet, fresh, eintrs, batchVars, fd>>

\* reaper (a): atomic store of null into the cell's slot
NullSlot(c) ==
    /\ rpc = "idle"
    /\ slot[c] # NULL
    /\ slot' = [slot EXCEPT ![c] = NULL]
    /\ rpc' = "nulled"
    /\ rcell' = c
    /\ last' = "env"
    /\ UNCHANGED <<loopVars, state, freed, freeack, uaf, hit, quiet, fresh, eintrs, batchVars, fd>>

\* reaper (b): reset the acknowledgement cell to 0
ResetAck ==
    /\ rpc = "nulled"
    /\ freeack' = 0
    /\ rpc' = "reset"
    /\ quiet' = (pc = "wait")
    /\ fresh' = FALSE
    /\ last' = "env"
    /\ UNCHANGED <<loopVars, slot, state, freed, rcell, uaf, hit, eintrs, batchVars, fd>>

\* reaper (c): a load of the acknowledgement cell that returns 1
ObserveAck ==
    /\ rpc = "reset"
    /\ freeack = 1
    /\ rpc' = "seen"
    /\ quiet' = FALSE
    /\ fresh' = FALSE
    /\ last' = "env"
    /\ UNCHANGED <<loopVars, memVars, rcell, uaf, hit, eintrs, batchVars, fd>>

\* reaper: free the cell
FreeCell ==
    /\ rpc = "seen"
    /\ freed' = [freed EXCEPT ![rcell] = TRUE]
    /\ rpc' = "idle"
    /\ rcell' = NULL
    /\ last' = "env"
    /\ UNCHANGED <<loopVars, slot, state, freeack, uaf, hit, quiet, fresh, eintrs, batchVars, fd>>

Next ==
    \/ EpollWait
    \/ LoadSlot
    \/ Cas
    \/ StoreAck
    \/ \E c \in Cells : ConnClose(c)
    \/ \E c \in Cells : NullSlot(c)
    \/ ResetAck
    \/ ObserveAck
    \/ FreeCell

Spec == Init /\ [][Next]_vars

\* The scenario of a wait primitive that signals interruption MaxEintr times and
\* then returns real events (n >= 1) on every call.
LiveWait ==
    \/ /\ eintrs < MaxEintr
       /\ EpollWaitStep(-1, EINTR)
       /\ eintrs' = eintrs + 1
       /\ UNCHANGED <<batchVars, fd>>
    \/ /\ eintrs = MaxEintr
       /\ \E r \in 1..MaxBatch : EpollWaitStep(r, EINTR)
       /\ UNCHANGED <<eintrs, batchVars, fd>>

LiveNext ==
    \/ LiveWait
    \/ LoadSlot
    \/ Cas
    \/ StoreAck
    \/ \E c \in Cells : ConnClose(c)
    \/ \E c \in Cells : NullSlot(c)
    \/ ResetAck
    \/ ObserveAck
    \/ FreeCell

\* the steps of the loop thread: at each value of pc exactly one of them is enabled
LoopThread == LiveWait \/ LoadSlot \/ Cas \/ StoreAck

\* The loop thread is scheduled fairly and the wait primitive answers every call;
\* nothing is assumed of the other threads.
LiveSpec == Init /\ [][LiveNext]_vars /\ WF_vars(LoopThread)

\* The for body and the acknowledgement store are straight-line code over lock-free
\* atomics: once epoll_wait has returned, the loop thread, scheduled fairly, runs them
\* to the end.  Nothing is assumed of epoll_wait, which blocks without a timeout and
\* may never return, nor of the other threads.
FairSpec == Spec /\ WF_vars(LoadSlot \/ Cas \/ StoreAck)

\* ------------------------------------------- the run of one given batch
\* The loop alone, with no other thread writing, run on one given batch: the array
\* epoll_wait fills is drawn with the initial state and the for loop reads it event
\* by event.  The batches are all those of at most MaxBatch events over BatchFlags,
\* and every single event over every combination of EpollBits.
BatchFlags == {{"EPOLLIN"}, {"EPOLLHUP"}, {"EPOLLIN", "EPOLLRDHUP"}}
EventsOver(F) == [ptr : Cells, events : F]
Batches ==
    UNION {[1..k -> EventsOver(BatchFlags)] : k \in 0..MaxBatch}
      \cup {<<e>> : e \in EventsOver(SUBSET EpollBits)}

\* as Init, with any of the slots already nulled by external code, the
\* acknowledgement cell not yet 1, and the batch the kernel is about to deliver
BatchInit ==
    /\ pc = "wait" /\ n = 0 /\ i = 0 /\ conn_ptr = NULL
    /\ errno = 0 /\ ret = 0
    /\ slot \in {f \in [Cells -> Cells \cup {NULL}] : \A c \in Cells : f[c] \in {c, NULL}}
    /\ fd = [c \in Cells |-> c]
    /\ state \in [Cells -> States]
    /\ freed = [c \in Cells |-> FALSE]
    /\ freeack \in {0, 2}
    /\ rpc = "idle" /\ rcell = NULL
    /\ last = "init" /\ uaf = FALSE /\ hit = {} /\ quiet = FALSE /\ fresh = FALSE
    /\ eintrs = 0
    /\ events \in Batches /\ pre = state

\* epoll_wait returns the batch
BatchWait ==
    /\ last = "init"
    /\ EpollWaitStep(Len(events), EINTR)
    /\ UNCHANGED <<eintrs, batchVars, fd>>

\* the for body on events[i] (the array is indexed from 1 here)
BatchLoad ==
    /\ pc = "load"
    /\ LoadEvent(events[i + 1].ptr, events[i + 1].events)

BatchNext ==
    \/ BatchWait
    \/ BatchLoad
    \/ Cas
    \/ StoreAck

BatchSpec == BatchInit /\ [][BatchNext]_vars

TypeOK ==
    /\ pc \in {"wait", "load", "cas", "ack", "returned"}
    /\ n \in -1..MaxBatch
    /\ i \in 0..MaxBatch
    /\ conn_ptr \in Cells \cup {NULL}
    /\ slot \in [Cells -> Cells \cup {NULL}]
    /\ state \in [Cells -> States]
    /\ freeack \in {0, 1, 2}
    /\ fd = [c \in Cells |-> c]

\* --------------------------------------------------------------- claims

\* the kinds of step the loop thread takes
LoopLast == {"eintr", "fatal", "batch", "load_null", "skip", "hup", "cas_ok", "cas_noop", "ack"}
CasLast  == {"cas_ok", "cas_noop"}
\* the loop is between a successful epoll_wait and its acknowledgement store
InBatch(p) == p \in {"load", "cas", "ack"}
\* every cell this batch loaded for a hang-up/error event shows its post-state
AllPost == \A c \in hit : state[c] # STATE_OK

\* C1: under the reaper's protocol (null the slot, reset the acknowledgement cell to
\* 0, observe 1, free) the loop never holds for its compare-and-swap, and never
\* dereferences, a cell that has been freed.
C1_ReclamationSafe ==
    /\ ~uaf
    /\ (pc = "cas" => conn_ptr # NULL /\ ~freed[conn_ptr])
    /\ \A c \in Cells : freed[c] => slot[c] = NULL
\* a cell was freed and the loop has since handled an event of its slot
\* (the reaper being idle, the null slots are those of the freed cells)
C1_Witness == last = "load_null" /\ rpc = "idle" /\ \E c \in Cells : freed[c]

\* C2: a step of the loop changes a cell only from OK to REMOTE_CLOSED; no step of
\* any thread changes a cell that is CLOSED or moves a cell back to OK.
C2_OnlyOkToRemoteClosed ==
    [][\A c \in Cells :
         /\ last' \in LoopLast =>
              \/ state'[c] = state[c]
              \/ state[c] = STATE_OK /\ state'[c] = STATE_REMOTE_CLOSED
         /\ state[c] = STATE_CLOSED => state'[c] = STATE_CLOSED
         /\ state'[c] = STATE_OK => state[c] = STATE_OK]_vars
\* a hang-up/error event reached a cell its owner had closed, and the
\* compare-and-swap has left it CLOSED
C2_Witness ==
    /\ last = "cas_noop"
    /\ \E c \in Cells : hit = {c} /\ state[c] = STATE_CLOSED /\ ~freed[c]

\* C3: a hang-up/error delivery on a cell in OK makes it REMOTE_CLOSED and is the one
\* successful transition; on a cell in REMOTE_CLOSED it is a no-op; a cell that has
\* left OK never returns to it, so no second transition can follow.
C3_Idempotent ==
    [][\A c \in Cells :
         /\ (last' \in CasLast /\ conn_ptr = c /\ state[c] # STATE_CLOSED) =>
              /\ state'[c] = STATE_REMOTE_CLOSED
              /\ (last' = "cas_ok") <=> (state[c] = STATE_OK)
         /\ state[c] # STATE_OK => state'[c] # STATE_OK]_vars
\* the second hang-up delivery of one batch found the cell REMOTE_CLOSED: a no-op
C3_Witness ==
    /\ last = "cas_noop" /\ i = 2
    /\ \E c \in Cells : hit = {c} /\ state[c] = STATE_REMOTE_CLOSED

\* C4 as stated: once the reaper has reset the acknowledgement cell to 0, in whatever
\* position of the loop, the cell becomes 1 only after a batch delivered since the
\* reset has been processed in full.
C4_Original ==
    [][(rpc = "reset" /\ freeack = 0 /\ freeack' = 1) =>
         (fresh /\ i = n /\ AllPost)]_vars
\* C4 amended: when the reset is made while the loop is in the wait (no batch in
\* flight), the cell becomes 1 again only by the acknowledgement store of a batch
\* delivered after the reset, all of whose events have been processed.
C4_NoEarlyAck ==
    [][(rpc = "reset" /\ quiet /\ freeack = 0 /\ freeack' = 1) =>
         (fresh /\ pc = "ack" /\ n >= 0 /\ i = n /\ AllPost)]_vars
\* a reset made in the wait, then a batch of at least one event, then the 1
C4_Witness ==
    /\ last = "ack" /\ rpc = "reset" /\ quiet /\ fresh /\ freeack = 1 /\ n >= 1

\* C5: every successful epoll_wait (n >= 0, the empty batch included) puts the loop in
\* a batch, which it leaves only by storing 1 into the acknowledgement cell, and it
\* stores it when all n events have been loaded and compare-and-swapped.
C5_EndOfBatchAck ==
    [][/\ last' = "batch" => InBatch(pc')
       /\ (InBatch(pc) /\ ~InBatch(pc')) => last' = "ack"
       /\ last' = "ack" =>
            (pc = "ack" /\ freeack' = 1 /\ n >= 0 /\ i = n /\ AllPost)]_vars
\* the empty batch has been acknowledged
C5_Witness == last = "ack" /\ n = 0 /\ freeack = 1

\* C6: a slot load that returns null changes no cell, returns no error, and hands
\* control to the next event of the batch or, after the last, to the acknowledgement.
C6_NullSlotSkipped ==
    [][(pc = "load" /\ last' = "load_null") =>
         /\ state' = state
         /\ freeack' = freeack
         /\ ret' = ret
         /\ i' = i + 1
         /\ conn_ptr' = NULL
         /\ pc' = IF i + 1 < n THEN "load" ELSE "ack"]_vars
\* a null slot was skipped and the batch has events left
C6_Witness == last = "load_null" /\ pc = "load" /\ i < n

\* C7 as stated: once a slot is null the loop makes no write to the state of the cell
\* it used to reference.
C7_Original ==
    [][\A c \in Cells :
         (slot[c] = NULL /\ last' \in LoopLast) => state'[c] = state[c]]_vars
\* C7 amended: once a slot is null no slot load hands the loop its cell; the one
\* write that can follow the null store is the pending compare-and-swap of an event
\* whose load preceded it, OK to REMOTE_CLOSED on a cell not yet freed; the state
\* stays one of OK, REMOTE_CLOSED, CLOSED.
C7_NoStaleLoad ==
    [][\A c \in Cells :
         slot[c] = NULL =>
           /\ conn_ptr' = c => conn_ptr = c
           /\ (last' \in LoopLast /\ state'[c] # state[c]) =>
                /\ pc = "cas" /\ conn_ptr = c /\ ~freed[c]
                /\ state[c] = STATE_OK /\ state'[c] = STATE_REMOTE_CLOSED
           /\ state'[c] \in States]_vars
\* the compare-and-swap of a pointer loaded before the null store succeeded after it
C7_Witness ==
    /\ last = "cas_ok"
    /\ \E c \in Cells :
         hit = {c} /\ slot[c] = NULL /\ ~freed[c] /\ state[c] = STATE_REMOTE_CLOSED

\* C8: the loop returns only from a failed epoll_wait whose errno is not EINTR, it
\* returns that errno, and it does so at once; no other step of it returns.
C8_LoopExit ==
    /\ [][/\ (pc' = "returned" /\ pc # "returned") =>
               (pc = "wait" /\ last' = "fatal" /\ n' < 0 /\ errno' # EINTR /\ ret' = errno')
          /\ last' = "fatal" => pc' = "returned"
          /\ last' \in (LoopLast \ {"fatal"}) => pc' # "returned"
          /\ pc = "returned" => loopVars' = loopVars]_vars
    /\ [](pc = "returned" => (n < 0 /\ ret = errno /\ ret \in Errnos \ {EINTR}))
\* the loop has returned EBADF
C8_Witness == pc = "returned" /\ ret = EBADF /\ last = "fatal"

\* C9: an epoll_wait that fails with EINTR leaves every cell, every slot and the
\* acknowledgement cell as they were and puts the loop back in the wait.
C9_EintrNoEffect ==
    [][last' = "eintr" =>
         /\ pc = "wait" /\ pc' = "wait"
         /\ state' = state /\ slot' = slot /\ freed' = freed
         /\ freeack' = freeack
         /\ ret' = ret]_vars
\* interrupted while the reaper waits for the acknowledgement: the cell is still 0
C9_Witness == last = "eintr" /\ pc = "wait" /\ rpc = "reset" /\ freeack = 0

\* C10: after MaxEintr interruptions the loop has not returned; the batch of real
\* events that follows is processed in full (every cell loaded for a hang-up/error
\* event has left OK) and then acknowledged with a store of 1.
C10_LiveAfterEintr ==
    /\ [](pc # "returned")
    /\ <>(eintrs = MaxEintr)
    /\ (pc = "wait" /\ eintrs = MaxEintr) ~> (pc = "ack" /\ n >= 1 /\ i = n /\ AllPost)
    /\ (pc = "ack") ~> (last = "ack" /\ freeack = 1 /\ pc = "wait")
\* after the interruptions a batch marked a cell REMOTE_CLOSED and awaits its
\* acknowledgement
C10_Witness ==
    /\ pc = "ack" /\ eintrs = MaxEintr /\ n >= 1 /\ hit # {}
    /\ \A c \in hit : state[c] = STATE_REMOTE_CLOSED

\* the bits of an event include hang-up, remote shutdown of writes, or error
Trigger(bits) == "EPOLLHUP" \in bits \/ "EPOLLRDHUP" \in bits \/ "EPOLLERR" \in bits
\* the reference result of the batch for cell c: a function of the pre-state, the
\* slots and the set of the events of the batch, whatever their order
Reference(c) ==
    IF /\ pre[c] = STATE_OK
       /\ \E k \in 1..Len(events) :
            Trigger(events[k].events) /\ slot[events[k].ptr] = c
      THEN STATE_REMOTE_CLOSED
      ELSE pre[c]

\* C11: once a batch run without concurrent writers is acknowledged, every cell
\* holds the reference result (REMOTE_CLOSED if it was OK and some hang-up/error
\* event of the batch has a slot pointing to it, its pre-state otherwise) and the
\* acknowledgement cell is 1; the reference reads the events as a set, so the
\* order of the events in the batch does not matter.
C11_BatchResult ==
    last = "ack" => (freeack = 1 /\ \A c \in Cells : state[c] = Reference(c))
\* cells {a: OK, b: CLOSED}, hang-up on a and readable on b, acknowledged:
\* a is REMOTE_CLOSED, b is CLOSED, the acknowledgement cell is 1
C11_Witness ==
    /\ last = "ack" /\ freeack = 1
    /\ \E a \in Cells, b \in Cells :
         /\ a # b /\ slot[a] = a /\ slot[b] = b
         /\ pre[a] = STATE_OK /\ pre[b] = STATE_CLOSED
         /\ events = <<[ptr |-> a, events |-> {"EPOLLHUP"}],
                       [ptr |-> b, events |-> {"EPOLLIN"}]>>
         /\ state[a] = STATE_REMOTE_CLOSED /\ state[b] = STATE_CLOSED

\* C12: for an event whose slot is not null the loop goes to the compare-and-swap,
\* on the cell the slot points to, exactly when the event carries hang-up, remote
\* shutdown of writes or error, whatever else it carries; a batch with no such
\* event changes no cell.
C12_Trigger ==
    /\ [][(pc = "load" /\ last' \in {"load_null", "skip", "hup"}
             /\ slot[events[i + 1].ptr] # NULL) =>
            /\ (pc' = "cas") <=> Trigger(events[i + 1].events)
            /\ pc' = "cas" => conn_ptr' = slot[events[i + 1].ptr]
            /\ pc' # "cas" => conn_ptr' = NULL]_vars
    /\ []((\A k \in 1..Len(events) : ~Trigger(events[k].events)) => state = pre)
\* an event carrying remote shutdown of writes and error together with readable
\* has moved its cell from OK to REMOTE_CLOSED
C12_Witness ==
    /\ last = "cas_ok"
    /\ \E c \in Cells :
         /\ events = <<[ptr |-> c, events |-> {"EPOLLIN", "EPOLLRDHUP", "EPOLLERR"}]>>
         /\ pre[c] = STATE_OK /\ state[c] = STATE_REMOTE_CLOSED

\* C13: outside the for body (in the wait, at the acknowledgement store, returned)
\* and at the top of the body the loop holds no pointer loaded from a slot; the
\* pointer it holds at the compare-and-swap was loaded in the batch in flight, and
\* the one step the loop takes with it is that compare-and-swap, after which it
\* holds none.
C13_NoPointerAcrossBatches ==
    /\ [](/\ pc \in {"wait", "load", "ack", "returned"} => conn_ptr = NULL
          /\ pc = "cas" => conn_ptr \in hit)
    /\ [][(conn_ptr # NULL /\ last' \in LoopLast) =>
            (last' \in CasLast /\ conn_ptr' = NULL /\ i' = i + 1)]_vars
\* the batch loaded and used a pointer, and at its acknowledgement store the loop
\* holds none
C13_Witness == pc = "ack" /\ hit # {} /\ conn_ptr = NULL /\ last \in CasLast

\* C14: a step of the loop leaves the acknowledgement cell as it is or, at the end
\* of a batch, stores 1 into it, whatever it held (0, 1 or anything else); the cell
\* leaves 1 only by the reaper's reset, which makes it 0.
C14_AckWriteOnlyOne ==
    [][/\ last' \in LoopLast => (freeack' = freeack \/ (last' = "ack" /\ freeack' = 1))
       /\ last' = "ack" => freeack' = 1
       /\ (freeack = 1 /\ freeack' # 1) =>
            (last' = "env" /\ rpc = "nulled" /\ rpc' = "reset" /\ freeack' = 0)]_vars
\* the reaper reset the cell while a batch was in flight and the loop has stored 1
\* over the 0
C14_Witness == last = "ack" /\ freeack = 1 /\ rpc = "reset" /\ ~quiet

\* C15: a step of the loop writes no slot and no identifier field and frees nothing;
\* it changes the state of at most one cell, and only by the compare-and-swap
\* through the pointer loaded from the slot of the event in hand, a cell that an
\* event of the batch in flight references.
C15_FrameOfLoop ==
    [][last' \in LoopLast =>
         /\ slot' = slot /\ fd' = fd /\ freed' = freed
         /\ Cardinality({c \in Cells : state'[c] # state[c]}) <= 1
         /\ \A c \in Cells :
              state'[c] # state[c] => (pc = "cas" /\ conn_ptr = c /\ c \in hit)]_vars
\* one cell was marked REMOTE_CLOSED while another, with a live slot and
\* referenced by no event of the batch, is still OK
C15_Witness ==
    /\ last = "cas_ok"
    /\ \E c \in Cells, d \in Cells :
         /\ c # d /\ hit = {c} /\ state[c] = STATE_REMOTE_CLOSED
         /\ slot[d] = d /\ state[d] = STATE_OK /\ fd[d] = d

\* C16: the step in which epoll_wait fails with an errno other than EINTR returns
\* that errno and leaves the acknowledgement cell, every state field and every
\* slot as they were; once the loop has returned it takes no further step, so the
\* acknowledgement cell does not become 1 again and a reaper that finds it 0 while
\* waiting for the acknowledgement waits for ever.
C16_FatalExit ==
    /\ [][last' = "fatal" =>
            /\ pc = "wait" /\ pc' = "returned" /\ ret' = errno' /\ ret' # EINTR
            /\ freeack' = freeack /\ state' = state /\ slot' = slot]_vars
    /\ [][pc = "returned" =>
            /\ last' = "env" /\ pc' = "returned" /\ ret' = ret
            /\ freeack' = 1 => freeack = 1
            /\ (rpc = "reset" /\ freeack = 0) => (rpc' = "reset" /\ freeack' = 0)]_vars
\* the reaper reset the acknowledgement cell after the loop had returned, with a
\* cell nulled and waiting to be freed
C16_Witness ==
    /\ pc = "returned" /\ ret = EBADF /\ last = "env"
    /\ rpc = "reset" /\ freeack = 0 /\ ~quiet
    /\ rcell # NULL /\ ~freed[rcell]

\* C17: under weak fairness of the loop thread every successful return of
\* epoll_wait, with 0 to MaxBatch events, is followed by the store of 1 into the
\* acknowledgement cell; a reaper waiting on a cell it reset to 0 while a batch is
\* in flight or before one arrives finds 1 there; and while epoll_wait does not
\* return a batch the cell, once 0, stays 0.
C17_HandshakeProgress ==
    /\ (last = "batch") ~> (last = "ack" /\ freeack = 1 /\ pc = "wait")
    /\ (rpc = "reset" /\ InBatch(pc)) ~> (rpc = "seen" \/ (rpc = "reset" /\ freeack = 1))
    /\ [][(pc \in {"wait", "returned"} /\ freeack = 0 /\ last' # "batch") =>
            (pc' \in {"wait", "returned"} /\ freeack' = 0)]_vars
\* an empty batch answered a reaper that had reset the cell while the loop was
\* blocked in epoll_wait
C17_Witness ==
    /\ last = "ack" /\ n = 0 /\ freeack = 1 /\ rpc = "reset" /\ quiet
====
